---- MODULE Spec2Model ----
(***************************************************************************)
(* A model of the syn lexer: the lexerBuilder that compiles a config into  *)
(* the rule table of a Lexer (src/lexer.go), and the tokenising session    *)
(* that Lexer.Tokenise starts over that table.                             *)
(*                                                                         *)
(* Conventions.                                                            *)
(*  - A Go string that names a state is a sequence of one-character        *)
(*    strings, so that strings.Join and prefixes are computed, not         *)
(*    assumed: "root" is <<"r","o","o","t">>, "" is <<>>.                  *)
(*  - A Go pointer field of a config.Rule is a sequence of length 0 (nil)  *)
(*    or 1 (set).                                                          *)
(*  - A Go error is a record [kind, names]; NoError is the nil error.      *)
(*  - mylog.Check / mylog.Check2 stop the calling function with the error  *)
(*    (a panic that carries it); mylog.CheckIgnore logs the error and      *)
(*    goes on.                                                             *)
(***************************************************************************)
EXTENDS Integers, Sequences, FiniteSets, TLC

VARIABLES
    cfg,          \* lexerBuilder.cfg.Rules.States: the config being built
    pc,           \* where Build (and then the session) stands
    si,           \* build(): index of the next config state of the first loop
    ci,           \* build(): index of the next rule of the second loop
    lexerRules,   \* lexerBuilder.lexer.rules.rules: state name -> rule list
    newRules,     \* resolveIncludes: the local map newRules
    validateErr,  \* what validate() returned to mylog.CheckIgnore
    err,          \* the error mylog.Check stopped Build with, or NoError
    text,         \* tokeniseAt: the text handed to Tokenise
    stripped,     \* tokeniseAt: the text with its line endings made LF
    offsetMap,    \* tokeniseAt: the breakpoints ensureLF recorded
    frames,       \* the iterator: the session and its nested sub-sessions
    accum,        \* the coalescer: the token it holds back
    out,          \* the tokens the outer iterator has yielded so far
    timeouts,     \* the pattern matches that ran out of time so far
    saves,        \* tokeniseAt: the times the session was saved and resumed
    stk,          \* stack_test.go: the stack s
    called,       \* stack_test.go: the last call made on the stack
    registry,     \* the LexerRegistry: Lexers, byName, byAlias
    found         \* what the last lookup in the registry returned

buildVars == <<cfg, pc, si, ci, lexerRules, newRules, validateErr, err>>
sessionVars == <<text, stripped, offsetMap, frames, accum, out, timeouts, saves>>
otherVars == <<stk, called, registry, found>>
vars == <<cfg, pc, si, ci, lexerRules, newRules, validateErr, err,
          text, stripped, offsetMap, frames, accum, out, timeouts, saves,
          stk, called, registry, found>>

----------------------------------------------------------------------------
(* Names *)

root == <<"r", "o", "o", "t">>
hashPush == <<"#", "p", "u", "s", "h">>
combinedPrefix == <<"_", "_", "c", "o", "m", "b", "i", "n", "e", "d", "_">>
joinSep == <<"_", "_">>

\* strings.Join(elems, sep)
RECURSIVE Join(_, _)
Join(elems, sep) ==
    IF elems = <<>> THEN <<>>
    ELSE IF Len(elems) = 1 THEN elems[1]
    ELSE elems[1] \o sep \o Join(Tail(elems), sep)

\* A function extended (or overwritten) at one key: m[k] = v of a Go map.
MapSet(m, k, v) == [n \in (DOMAIN m) \cup {k} |-> IF n = k THEN v ELSE m[n]]

EmptyMap == [n \in {} |-> <<>>]

----------------------------------------------------------------------------
(* Errors *)

NoError == [kind |-> "nil", names |-> <<>>]
Error(kind) == [kind |-> kind, names |-> <<>>]
ErrorNaming(kind, names) == [kind |-> kind, names |-> names]

\* The errors of checkRule: the spec's ConflictingRuleAction.
ConflictKinds ==
    {"NoPatternNoDirective", "PushAndPop", "TokenAndInclude",
     "TokenAndByGroups", "IncludeAndByGroups", "CombinedAndPushPopInclude"}

----------------------------------------------------------------------------
(* Patterns.  A pattern string is a top-level alternation of sequences of  *)
(* character classes; bad is a string regexp2.Compile rejects.  An         *)
(* alternative may carry capture groups, each a range <<from, to>> of its  *)
(* atoms.                                                                  *)

Alt(atoms) == [atoms |-> atoms, groups |-> <<>>]
AltG(atoms, groups) == [atoms |-> atoms, groups |-> groups]
Pat(alts) == [bad |-> FALSE, alts |-> alts]
EmptyPattern == Pat(<<Alt(<<>>)>>)
BadPattern == [bad |-> TRUE, alts |-> <<>>]

\* The zero value of a compiled pattern (rule{} before makeRule sets it).
NoRegexp == [alts |-> <<>>, anchored |-> <<>>]

\* regexp2.Compile(`\A` + pattern): the anchor is prepended to the text of
\* the pattern, so it belongs to the first top-level alternative only.
Compile(pattern) ==
    [alts |-> pattern.alts,
     anchored |-> [i \in 1..Len(pattern.alts) |-> i = 1]]

----------------------------------------------------------------------------
(* Token types *)

zeroTokenType == "None"
TokenTypeNames == {"Text", "Number", "String", "Punct", "Error"}

\* TokenTypeString(name): the token type of that name, or an error.
TokenTypeString(name) ==
    IF name \in TokenTypeNames
    THEN [typ |-> name, err |-> NoError]
    ELSE [typ |-> zeroTokenType, err |-> Error("UnknownTokenType")]

----------------------------------------------------------------------------
(* config.Rule and rule *)

Nil == <<>>
Set(v) == <<v>>
IsNil(p) == p = <<>>

\* A config.Rule with only a pattern; the families below fill in the rest.
CfgRule(pattern) ==
    [Pattern |-> pattern, Token |-> Nil, Push |-> Nil, Pop |-> Nil,
     Include |-> Nil, Combined |-> Nil, ByGroups |-> Nil, UsingSelf |-> Nil]

\* rule{pattern: re}
NewRule(re) ==
    [pattern |-> re, tok |-> zeroTokenType, popDepth |-> 0, pushState |-> <<>>,
     include |-> <<>>, byGroups |-> <<>>, useSelfState |-> <<>>]

----------------------------------------------------------------------------
(* lexerBuilder *)

validate(c) ==
    LET foundRoot == \E i \in 1..Len(c) : c[i].Name = root
        stateNames == {c[i].Name : i \in 1..Len(c)}
        \* the Push targets of one state's rules that are no state name
        RECURSIVE MissingIn(_)
        MissingIn(rs) ==
            IF rs = <<>> THEN <<>>
            ELSE LET rule == Head(rs)
                 IN  IF IsNil(rule.Push) \/ rule.Push[1].State = <<>>
                     THEN MissingIn(Tail(rs))
                     ELSE IF rule.Push[1].State \notin stateNames
                          THEN <<rule.Push[1].State>> \o MissingIn(Tail(rs))
                          ELSE MissingIn(Tail(rs))
        RECURSIVE MissingFrom(_)
        MissingFrom(i) ==
            IF i > Len(c) THEN <<>>
            ELSE MissingIn(c[i].Rules) \o MissingFrom(i + 1)
    IN  IF ~foundRoot THEN Error("NoRoot")
        ELSE LET missing == MissingFrom(1)
             IN  IF missing = <<>> THEN NoError
                 ELSE ErrorNaming("MissingStates", missing)

\* checkRule without its last check: a Combined beside a Push, Pop or Include
\* goes through.
checkRule_CombinedUnchecked(r) ==
    IF r.Pattern = EmptyPattern /\ IsNil(r.Push) /\ IsNil(r.Pop) /\ IsNil(r.Include)
    THEN Error("NoPatternNoDirective")
    ELSE IF ~IsNil(r.Pop) /\ ~IsNil(r.Push)
    THEN Error("PushAndPop")
    ELSE IF ~IsNil(r.Token) /\ ~IsNil(r.Include)
    THEN Error("TokenAndInclude")
    ELSE IF ~IsNil(r.Token) /\ ~IsNil(r.ByGroups)
    THEN Error("TokenAndByGroups")
    ELSE IF ~IsNil(r.Include) /\ ~IsNil(r.ByGroups)
    THEN Error("IncludeAndByGroups")
    ELSE NoError

checkRule(r) ==
    IF r.Pattern = EmptyPattern /\ IsNil(r.Push) /\ IsNil(r.Pop) /\ IsNil(r.Include)
    THEN Error("NoPatternNoDirective")
    ELSE IF ~IsNil(r.Pop) /\ ~IsNil(r.Push)
    THEN Error("PushAndPop")
    ELSE IF ~IsNil(r.Token) /\ ~IsNil(r.Include)
    THEN Error("TokenAndInclude")
    ELSE IF ~IsNil(r.Token) /\ ~IsNil(r.ByGroups)
    THEN Error("TokenAndByGroups")
    ELSE IF ~IsNil(r.Include) /\ ~IsNil(r.ByGroups)
    THEN Error("IncludeAndByGroups")
    ELSE IF ~IsNil(r.Combined) /\ (~IsNil(r.Push) \/ ~IsNil(r.Pop) \/ ~IsNil(r.Include))
    THEN Error("CombinedAndPushPopInclude")
    ELSE NoError

makeRule(pattern) ==
    IF pattern.bad
    THEN [r |-> NewRule(NoRegexp), err |-> Error("InvalidPattern")]
    ELSE [r |-> NewRule(Compile(pattern)), err |-> NoError]

combinedStateName(c) == combinedPrefix \o Join(c.States, joinSep)

updatePushForCombinedState(r, cr) ==
    IF IsNil(cr.Combined) THEN r
    ELSE [r EXCEPT !.pushState = combinedStateName(cr.Combined[1])]

\* The byGroups list of setRuleFieldsFrom: one byGroupElement per element,
\* or the first error of TokenTypeString.
RECURSIVE byGroupElements(_)
byGroupElements(es) ==
    IF es = <<>> THEN [list |-> <<>>, err |-> NoError]
    ELSE LET e == Head(es)
             t == TokenTypeString(e.Type)
         IN  IF e.V = "Token" /\ t.err # NoError
             THEN [list |-> <<>>, err |-> t.err]
             ELSE LET ge == IF e.V = "Token"
                            THEN [tok |-> t.typ, useSelfState |-> <<>>]
                            ELSE [tok |-> zeroTokenType, useSelfState |-> e.State]
                      rest == byGroupElements(Tail(es))
                  IN  IF rest.err # NoError THEN rest
                      ELSE [list |-> <<ge>> \o rest.list, err |-> NoError]

setRuleFieldsFrom(r, cr) ==
    LET t == IF IsNil(cr.Token) THEN [typ |-> r.tok, err |-> NoError]
             ELSE TokenTypeString(cr.Token[1].Type)
        bg == IF IsNil(cr.ByGroups) THEN [list |-> <<>>, err |-> NoError]
              ELSE byGroupElements(cr.ByGroups[1].ByGroupsElements)
    IN  IF t.err # NoError THEN [r |-> r, err |-> t.err]
        ELSE IF bg.err # NoError THEN [r |-> r, err |-> bg.err]
        ELSE [r |-> [r EXCEPT
                      !.tok = t.typ,
                      !.popDepth = IF IsNil(cr.Pop) THEN @ ELSE cr.Pop[1].Depth,
                      !.pushState = IF IsNil(cr.Push) THEN @ ELSE cr.Push[1].State,
                      !.include = IF IsNil(cr.Include) THEN @ ELSE cr.Include[1].State,
                      !.byGroups = bg.list,
                      !.useSelfState = IF IsNil(cr.UsingSelf) THEN @
                                       ELSE cr.UsingSelf[1].State],
              err |-> NoError]

RECURSIVE ruleSequence(_)
ruleSequence(crs) ==
    IF crs = <<>> THEN [rules |-> <<>>, err |-> NoError]
    ELSE LET cr == Head(crs)
             chk == checkRule(cr)
             made == makeRule(cr.Pattern)
             set == setRuleFieldsFrom(updatePushForCombinedState(made.r, cr), cr)
         IN  IF chk # NoError THEN [rules |-> <<>>, err |-> chk]
             ELSE IF made.err # NoError THEN [rules |-> <<>>, err |-> made.err]
             ELSE IF set.err # NoError THEN [rules |-> <<>>, err |-> set.err]
             ELSE LET rest == ruleSequence(Tail(crs))
                  IN  IF rest.err # NoError THEN rest
                      ELSE [rules |-> <<set.r>> \o rest.rules, err |-> NoError]

\* rules.AddState, rules.Contains, rules.Get on the map rules.rules
AddState(T, name, rs) == MapSet(T, name, rs)
Contains(T, name) == name \in DOMAIN T

\* The rules a combined state collects: the rule lists of its substates as
\* they stand in the table, or the error for the first one that is missing.
RECURSIVE combinedRules(_, _)
combinedRules(T, names) ==
    IF names = <<>> THEN [rules |-> <<>>, err |-> NoError]
    ELSE IF ~Contains(T, Head(names))
    THEN [rules |-> <<>>, err |-> ErrorNaming("CombinedSubstateMissing", <<Head(names)>>)]
    ELSE LET rest == combinedRules(T, Tail(names))
         IN  IF rest.err # NoError THEN rest
             ELSE [rules |-> T[Head(names)] \o rest.rules, err |-> NoError]

\* createCombinedStateInRule without the Contains test: the state is built
\* and added again for every rule.
createCombinedStateInRule_Again(T, cr) ==
    IF IsNil(cr.Combined) THEN [T |-> T, err |-> NoError]
    ELSE LET got == combinedRules(T, cr.Combined[1].States)
         IN  IF got.err # NoError THEN [T |-> T, err |-> got.err]
             ELSE [T |-> AddState(T, combinedStateName(cr.Combined[1]), got.rules),
                   err |-> NoError]

createCombinedStateInRule(T, cr) ==
    IF IsNil(cr.Combined) THEN [T |-> T, err |-> NoError]
    ELSE LET combinedName == combinedStateName(cr.Combined[1])
         IN  IF Contains(T, combinedName) THEN [T |-> T, err |-> NoError]
             ELSE LET got == combinedRules(T, cr.Combined[1].States)
                  IN  IF got.err # NoError THEN [T |-> T, err |-> got.err]
                      ELSE [T |-> AddState(T, combinedName, got.rules),
                            err |-> NoError]

\* resolveIncludesIn that appends the included state's rules as they are,
\* without resolving them in turn.
RECURSIVE resolveIncludesIn_Shallow(_, _, _)
resolveIncludesIn_Shallow(T, rs, fuel) ==
    IF rs = <<>> THEN [st |-> "ok", rules |-> <<>>, err |-> NoError]
    ELSE LET rl == Head(rs)
             rest == resolveIncludesIn_Shallow(T, Tail(rs), fuel)
         IN  IF rl.include # <<>> /\ ~Contains(T, rl.include)
             THEN [st |-> "error", rules |-> <<>>,
                   err |-> ErrorNaming("IncludeMissing", <<rl.include>>)]
             ELSE IF rest.st # "ok" THEN rest
             ELSE [rest EXCEPT !.rules =
                      (IF rl.include # <<>> THEN T[rl.include] ELSE <<rl>>) \o @]

\* resolveIncludesIn(rules).  The recursion has no guard against a cycle of
\* includes: a chain of nested calls longer than the number of states of
\* the table repeats a state, and from there repeats itself for ever.
\* fuel counts the nested calls still allowed before that is certain.
RECURSIVE resolveIncludesIn(_, _, _)
resolveIncludesIn(T, rs, fuel) ==
    IF rs = <<>> THEN [st |-> "ok", rules |-> <<>>, err |-> NoError]
    ELSE LET rl == Head(rs)
         IN  IF rl.include # <<>>
             THEN IF ~Contains(T, rl.include)
                  THEN [st |-> "error", rules |-> <<>>,
                        err |-> ErrorNaming("IncludeMissing", <<rl.include>>)]
                  ELSE IF fuel = 0
                  THEN [st |-> "diverges", rules |-> <<>>, err |-> NoError]
                  ELSE LET resolved == resolveIncludesIn(T, T[rl.include], fuel - 1)
                       IN  IF resolved.st # "ok" THEN resolved
                           ELSE LET rest == resolveIncludesIn(T, Tail(rs), fuel)
                                IN  IF rest.st # "ok" THEN rest
                                    ELSE [rest EXCEPT !.rules = resolved.rules \o @]
             ELSE LET rest == resolveIncludesIn(T, Tail(rs), fuel)
                  IN  IF rest.st # "ok" THEN rest
                      ELSE [rest EXCEPT !.rules = <<rl>> \o @]

\* The rules of the config in the order build()'s second loop visits them.
RECURSIVE AllRules(_, _)
AllRules(c, i) ==
    IF i > Len(c) THEN <<>> ELSE c[i].Rules \o AllRules(c, i + 1)

AfterStates(c) == IF AllRules(c, 1) = <<>> THEN "resolve" ELSE "combine"
AfterValidate(c) == IF c = <<>> THEN AfterStates(c) ELSE "build"

----------------------------------------------------------------------------
(* Build, one step of it at a time *)

\* Build: mylog.CheckIgnore(lb.validate())
Validate ==
    /\ pc = "validate"
    /\ validateErr' = validate(cfg)
    /\ pc' = AfterValidate(cfg)
    /\ UNCHANGED <<cfg, si, ci, lexerRules, newRules, err>>
    /\ UNCHANGED <<sessionVars, otherVars>>

\* build(), first loop: one config state becomes a state of the table.
BuildState ==
    /\ pc = "build"
    /\ LET seq == ruleSequence(cfg[si].Rules)
       IN  IF seq.err # NoError
           THEN /\ pc' = "aborted"
                /\ err' = seq.err
                /\ UNCHANGED <<si, lexerRules>>
           ELSE /\ lexerRules' = AddState(lexerRules, cfg[si].Name, seq.rules)
                /\ si' = si + 1
                /\ pc' = IF si = Len(cfg) THEN AfterStates(cfg) ELSE "build"
                /\ err' = err
    /\ UNCHANGED <<cfg, ci, newRules, validateErr>>
    /\ UNCHANGED <<sessionVars, otherVars>>

\* build(), second loop: createCombinedStateInRule for one rule.
CreateCombinedState ==
    /\ pc = "combine"
    /\ LET made == createCombinedStateInRule(lexerRules, AllRules(cfg, 1)[ci])
       IN  IF made.err # NoError
           THEN /\ pc' = "aborted"
                /\ err' = made.err
                /\ UNCHANGED <<ci, lexerRules>>
           ELSE /\ lexerRules' = made.T
                /\ ci' = ci + 1
                /\ pc' = IF ci = Len(AllRules(cfg, 1)) THEN "resolve" ELSE "combine"
                /\ err' = err
    /\ UNCHANGED <<cfg, si, newRules, validateErr>>
    /\ UNCHANGED <<sessionVars, otherVars>>

\* resolveIncludes that puts each resolved list in the table at once and
\* replaces an include by the list the included state holds at that moment.
ResolveState_InPlace ==
    /\ pc = "resolve"
    /\ \E name \in (DOMAIN lexerRules) \ (DOMAIN newRules) :
          LET T == [n \in DOMAIN lexerRules |->
                       IF n \in DOMAIN newRules THEN newRules[n] ELSE lexerRules[n]]
              list == resolveIncludesIn_Shallow(T, lexerRules[name],
                                                Cardinality(DOMAIN lexerRules))
          IN  CASE list.st = "ok" ->
                      /\ newRules' = MapSet(newRules, name, list.rules)
                      /\ UNCHANGED <<pc, err>>
                [] list.st = "error" ->
                      /\ pc' = "aborted"
                      /\ err' = list.err
                      /\ UNCHANGED newRules
                [] list.st = "diverges" ->
                      /\ pc' = "diverges"
                      /\ UNCHANGED <<newRules, err>>
    /\ UNCHANGED <<cfg, si, ci, lexerRules, validateErr>>
    /\ UNCHANGED <<sessionVars, otherVars>>

\* resolveIncludes, one iteration of its loop over the map: Go visits the
\* keys of a map in no fixed order.
ResolveState ==
    /\ pc = "resolve"
    /\ \E name \in (DOMAIN lexerRules) \ (DOMAIN newRules) :
          LET list == resolveIncludesIn(lexerRules, lexerRules[name],
                                        Cardinality(DOMAIN lexerRules))
          IN  CASE list.st = "ok" ->
                      /\ newRules' = MapSet(newRules, name, list.rules)
                      /\ UNCHANGED <<pc, err>>
                [] list.st = "error" ->
                      /\ pc' = "aborted"
                      /\ err' = list.err
                      /\ UNCHANGED newRules
                [] list.st = "diverges" ->
                      /\ pc' = "diverges"
                      /\ UNCHANGED <<newRules, err>>
    /\ UNCHANGED <<cfg, si, ci, lexerRules, validateErr>>
    /\ UNCHANGED <<sessionVars, otherVars>>

\* resolveIncludes: lb.lexer.rules.rules = newRules; Build: return lb.lexer, nil
Return ==
    /\ pc = "resolve"
    /\ DOMAIN newRules = DOMAIN lexerRules
    /\ lexerRules' = newRules
    /\ pc' = "built"
    /\ UNCHANGED <<cfg, si, ci, newRules, validateErr, err>>
    /\ UNCHANGED <<sessionVars, otherVars>>

\* newLexerBuilder(c)
InitBuilder(c) ==
    /\ cfg = c
    /\ pc = "validate"
    /\ si = 1
    /\ ci = 1
    /\ lexerRules = EmptyMap
    /\ newRules = EmptyMap
    /\ validateErr = NoError
    /\ err = NoError
    /\ text = <<>>
    /\ stripped = <<>>
    /\ offsetMap = <<>>
    /\ frames = <<>>
    /\ accum = <<>>
    /\ out = <<>>
    /\ timeouts = 0
    /\ saves = 0
    /\ stk = <<>>
    /\ called = <<>>
    /\ registry = [Lexers |-> <<>>, byName |-> <<>>, byAlias |-> <<>>]
    /\ found = <<>>

NextBuild == Validate \/ BuildState \/ CreateCombinedState \/ ResolveState \/ Return

----------------------------------------------------------------------------
(* The configs Build is run on *)

sA == <<"a">>
sB == <<"b">>
sC == <<"c">>
ghost == <<"x">>

ClassA == {"a"}
ClassB == {"b"}
PatA == Pat(<<Alt(<<ClassA>>)>>)
PatB == Pat(<<Alt(<<ClassB>>)>>)

Token(type) == Set([Type |-> type])
State(name) == Set([State |-> name])
Depth(n) == Set([Depth |-> n])
Combined(names) == Set([States |-> names])
ByGroups(es) == Set([ByGroupsElements |-> es])
GroupToken(type) == [V |-> "Token", Type |-> type, State |-> <<>>]
GroupUsingSelf(name) == [V |-> "UsingSelf", Type |-> "", State |-> name]

CfgState(name, rs) == [Name |-> name, Rules |-> rs]
TokenRule(pattern, type) == [CfgRule(pattern) EXCEPT !.Token = Token(type)]
IncludeRule(name) == [CfgRule(EmptyPattern) EXCEPT !.Include = State(name)]

\* Every way of populating the fields of one rule of root, beside two plain
\* states.
RuleShapes ==
    [Pattern : {EmptyPattern, PatA, BadPattern},
     Token : {Nil, Token("Text"), Token("Bogus")},
     Push : {Nil, State(sA), State(ghost), State(hashPush)},
     Pop : {Nil, Depth(1)},
     Include : {Nil, State(sA), State(ghost)},
     Combined : {Nil, Combined(<<sA, sB>>)},
     ByGroups : {Nil, ByGroups(<<GroupToken("Text")>>)},
     UsingSelf : {Nil, State(sA)}]

ShapeConfigs ==
    {<<CfgState(root, <<r>>),
       CfgState(sA, <<TokenRule(PatA, "Text")>>),
       CfgState(sB, <<TokenRule(PatB, "Number")>>)>> : r \in RuleShapes}

\* Two rules in root: the second is reached only when the first is accepted.
PairRules ==
    {TokenRule(PatA, "Text"),
     TokenRule(BadPattern, "Text"),
     TokenRule(PatA, "Bogus"),
     [TokenRule(PatA, "Text") EXCEPT !.Include = State(sA)],
     [TokenRule(PatA, "Text") EXCEPT !.Push = State(sA), !.Pop = Depth(1)],
     [CfgRule(EmptyPattern) EXCEPT !.Combined = Combined(<<sA, sB>>)],
     [CfgRule(EmptyPattern) EXCEPT !.UsingSelf = State(sA)],
     CfgRule(EmptyPattern)}

PairConfigs ==
    {<<CfgState(root, <<r1, r2>>),
       CfgState(sA, <<TokenRule(PatA, "Text")>>),
       CfgState(sB, <<TokenRule(PatB, "Number")>>)>> : r1 \in PairRules, r2 \in PairRules}

\* Includes: root, a and b each hold one token rule of their own and at most
\* one include, before or after it, of a state that may be any of the three
\* (so chains and cycles) or undefined.
OwnRule(name) ==
    IF name = root THEN TokenRule(PatA, "Text")
    ELSE IF name = sA THEN TokenRule(PatA, "Number")
    ELSE IF name = sB THEN TokenRule(PatB, "String")
    ELSE TokenRule(PatB, "Punct")

IncludeLists(name) ==
    {<<OwnRule(name)>>}
    \cup {<<IncludeRule(x), OwnRule(name)>> : x \in {root, sA, sB, ghost}}
    \cup {<<OwnRule(name), IncludeRule(x)>> : x \in {root, sA, sB, ghost}}

IncludeConfigs ==
    {<<CfgState(root, l1), CfgState(sA, l2), CfgState(sB, l3)>> :
        l1 \in IncludeLists(root), l2 \in IncludeLists(sA), l3 \in IncludeLists(sB)}

\* Combined: a first Combined rule in root and a second one in root or in c,
\* over lists that repeat, differ, collide in their joined name, name an
\* undefined state or name a synthesized state; a may include b; a state may
\* be declared under the name a synthesized state would get.
sAB == sA \o joinSep \o sB
sBC == sB \o joinSep \o sC
CombinedRule(names) == [TokenRule(PatA, "Punct") EXCEPT !.Combined = Combined(names)]

CombinedLists ==
    {<<sA>>, <<sA, sB>>, <<sB, sA>>, <<sA, sBC>>, <<sAB, sC>>, <<ghost>>, <<>>,
     <<combinedPrefix \o sA>>}

CombinedConfig(l1, l2, inRoot, aIncludesB, declared) ==
    <<CfgState(root, <<CombinedRule(l1)>>
                     \o (IF inRoot THEN <<CombinedRule(l2)>> ELSE <<>>)),
      CfgState(sA, IF aIncludesB THEN <<IncludeRule(sB), OwnRule(sA)>>
                   ELSE <<OwnRule(sA)>>),
      CfgState(sB, <<OwnRule(sB)>>),
      CfgState(sC, <<OwnRule(sC)>>
                   \o (IF inRoot THEN <<>> ELSE <<CombinedRule(l2)>>)),
      CfgState(sAB, <<TokenRule(PatB, "Text")>>),
      CfgState(sBC, <<TokenRule(PatB, "Number")>>)>>
    \o (IF declared THEN <<CfgState(combinedPrefix \o sA, <<TokenRule(PatA, "String")>>)>>
        ELSE <<>>)

CombinedConfigs ==
    {CombinedConfig(l1, l2, inRoot, aIncludesB, declared) :
        l1 \in CombinedLists, l2 \in CombinedLists,
        inRoot \in BOOLEAN, aIncludesB \in BOOLEAN, declared \in BOOLEAN}

\* No state named root.
NoRootConfigs ==
    {<<>>}
    \cup {<<CfgState(sA, <<r>>), CfgState(sB, <<OwnRule(sB)>>)>> : r \in PairRules}
    \cup {<<CfgState(sA, l2), CfgState(sB, <<OwnRule(sB)>>)>> : l2 \in IncludeLists(sA)}

BuildConfigs ==
    ShapeConfigs \cup PairConfigs \cup IncludeConfigs \cup CombinedConfigs
    \cup NoRootConfigs

InitBuild == \E c \in BuildConfigs : InitBuilder(c)

SpecBuild == InitBuild /\ [][NextBuild]_vars

----------------------------------------------------------------------------
(* Properties of Build *)

HasRoot(c) == \E i \in 1..Len(c) : c[i].Name = root
StateNames(c) == {c[i].Name : i \in 1..Len(c)}
Elements(seq) == {seq[i] : i \in 1..Len(seq)}
RuleSet(c) == UNION {Elements(c[i].Rules) : i \in 1..Len(c)}

\* Build has stopped with an error.
Failed == pc = "aborted"
\* Build has gone past validate().
Validated == pc # "validate"
\* Build has gone past build().
PastBuild == pc \in {"resolve", "built", "diverges"}

\* C4: Build on a Config with no state named root fails with the missing-root
\* error and returns no Lexer.
C4_NoRootFails ==
    (~HasRoot(cfg) /\ Validated) => (Failed /\ err = Error("NoRoot"))

\* The state names a Push or an Include refers to that are not defined.
UndefinedPushTargets(c) ==
    {r.Push[1].State : r \in {x \in RuleSet(c) : ~IsNil(x.Push)}}
    \ (StateNames(c) \cup {hashPush, <<>>})
UndefinedIncludeTargets(c) ==
    {r.Include[1].State : r \in {x \in RuleSet(c) : ~IsNil(x.Include)}}
    \ (StateNames(c) \cup {<<>>})
Dangling(c) == UndefinedPushTargets(c) \cup UndefinedIncludeTargets(c)

\* C5: Build on a Config with a root state and a Push or Include target that
\* is not defined fails with the dangling-reference error, which lists every
\* undefined target, and returns no Lexer.
C5_DanglingFails ==
    (HasRoot(cfg) /\ Dangling(cfg) # {} /\ Validated)
        => /\ Failed
           /\ err.kind = "MissingStates"
           /\ Elements(err.names) = Dangling(cfg)

\* The incompatible combinations of one rule.
Incompatible(r) ==
    \/ ~IsNil(r.Token) /\ ~IsNil(r.Include)
    \/ ~IsNil(r.Token) /\ ~IsNil(r.ByGroups)
    \/ ~IsNil(r.Include) /\ ~IsNil(r.ByGroups)
    \/ ~IsNil(r.Push) /\ ~IsNil(r.Pop)
    \/ ~IsNil(r.Combined) /\ (~IsNil(r.Push) \/ ~IsNil(r.Pop) \/ ~IsNil(r.Include))
\* A rule with neither a pattern nor any directive.
Bare(r) ==
    /\ r.Pattern = EmptyPattern
    /\ IsNil(r.Token) /\ IsNil(r.Push) /\ IsNil(r.Pop) /\ IsNil(r.Include)
    /\ IsNil(r.Combined) /\ IsNil(r.ByGroups) /\ IsNil(r.UsingSelf)
\* A rule with no pattern and none of Push, Pop and Include.
Patternless(r) ==
    r.Pattern = EmptyPattern /\ IsNil(r.Push) /\ IsNil(r.Pop) /\ IsNil(r.Include)
\* A rule build() stops at for another reason than its combination of actions.
Uncompilable(r) ==
    \/ r.Pattern.bad
    \/ ~IsNil(r.Token) /\ r.Token[1].Type \notin TokenTypeNames
    \/ /\ ~IsNil(r.ByGroups)
       /\ \E e \in Elements(r.ByGroups[1].ByGroupsElements) :
             e.V = "Token" /\ e.Type \notin TokenTypeNames

\* C6 as claimed: Build fails for every Config with a rule that is
\* Incompatible or Bare (with ConflictingRuleAction, when no rule is
\* Uncompilable), and a Config with no such rule is never rejected with
\* ConflictingRuleAction.
C6_ConflictAsClaimed ==
    /\ (\E r \in RuleSet(cfg) : Incompatible(r) \/ Bare(r)) => ~PastBuild
    /\ ((\E r \in RuleSet(cfg) : Incompatible(r) \/ Bare(r))
         /\ (\A r \in RuleSet(cfg) : ~Uncompilable(r))
         /\ pc \notin {"validate", "build"})
            => (Failed /\ err.kind \in ConflictKinds)
    /\ (\A r \in RuleSet(cfg) : ~(Incompatible(r) \/ Bare(r)))
            => err.kind \notin ConflictKinds

\* C6, amended: the same with Patternless in the place of Bare: a rule with
\* no pattern is rejected unless it has a Push, a Pop or an Include.
C6_ConflictFails ==
    /\ (\E r \in RuleSet(cfg) : Incompatible(r) \/ Patternless(r)) => ~PastBuild
    /\ ((\E r \in RuleSet(cfg) : Incompatible(r) \/ Patternless(r))
         /\ (\A r \in RuleSet(cfg) : ~Uncompilable(r))
         /\ pc \notin {"validate", "build"})
            => (Failed /\ err.kind \in ConflictKinds)
    /\ (\A r \in RuleSet(cfg) : ~(Incompatible(r) \/ Patternless(r)))
            => err.kind \notin ConflictKinds

\* C6 witness: Build stopped at a rule with no pattern whose only directive
\* is a Combined.
C6_Witness ==
    /\ Failed
    /\ err = Error("NoPatternNoDirective")
    /\ \E r \in RuleSet(cfg) : Patternless(r) /\ ~IsNil(r.Combined)
    /\ \A r \in RuleSet(cfg) : ~Incompatible(r) /\ ~Bare(r)

\* One round of replacing every include rule of a list by the declared rule
\* list of the state it names.
RECURSIVE SubstituteIncludes(_, _)
SubstituteIncludes(T, rs) ==
    IF rs = <<>> THEN <<>>
    ELSE (IF Head(rs).include # <<>> THEN T[Head(rs).include] ELSE <<Head(rs)>>)
         \o SubstituteIncludes(T, Tail(rs))

HasInclude(rs) == \E i \in 1..Len(rs) : rs[i].include # <<>>

\* The expansion of a rule list: rounds of substitution until no include is
\* left (at most n rounds).
RECURSIVE Expansion(_, _, _)
Expansion(T, rs, n) ==
    IF ~HasInclude(rs) \/ n = 0 THEN rs
    ELSE Expansion(T, SubstituteIncludes(T, rs), n - 1)

\* C7: when Build returns, every state of the table (a synthesized one too)
\* holds the expansion of the rule list it held before resolveIncludes, each
\* include replaced at its position by the resolved list of the included
\* state, and no rule of the table has an include left.
C7_IncludesResolved ==
    [][pc' = "built" =>
         /\ DOMAIN lexerRules' = DOMAIN lexerRules
         /\ \A n \in DOMAIN lexerRules :
               /\ lexerRules'[n] =
                      Expansion(lexerRules, lexerRules[n], Cardinality(DOMAIN lexerRules))
               /\ ~HasInclude(lexerRules'[n])]_vars

\* C7 witness: root includes a, a includes b; the built root holds b's rule,
\* then a's, then its own.
C7_Witness ==
    /\ pc = "built"
    /\ cfg = <<CfgState(root, <<IncludeRule(sA), OwnRule(root)>>),
               CfgState(sA, <<IncludeRule(sB), OwnRule(sA)>>),
               CfgState(sB, <<OwnRule(sB)>>)>>
    /\ [i \in 1..Len(lexerRules[root]) |-> lexerRules[root][i].tok]
          = <<"String", "Number", "Text">>

\* C8: Build always finishes: resolveIncludes never recurses without end.
C8_BuildTerminates == pc # "diverges"

CombinedRulesOf(c) == {r \in RuleSet(c) : ~IsNil(r.Combined)}
CombinedListsOf(c) == {r.Combined[1].States : r \in CombinedRulesOf(c)}

\* C9: once build() has run, the rules that declare Combined with the same
\* list push one and the same state, which is in the table, and the table
\* holds at most one synthesized state per list; a createCombinedStateInRule
\* step changes no state the table holds, and adds none for a list an earlier
\* rule declared.
C9_CombinedOnce ==
    /\ [](pc = "resolve" =>
            /\ \A i1 \in 1..Len(cfg), i2 \in 1..Len(cfg) :
               \A j1 \in 1..Len(cfg[i1].Rules), j2 \in 1..Len(cfg[i2].Rules) :
                  (/\ ~IsNil(cfg[i1].Rules[j1].Combined)
                   /\ cfg[i1].Rules[j1].Combined = cfg[i2].Rules[j2].Combined)
                  => /\ lexerRules[cfg[i1].Name][j1].pushState
                           = lexerRules[cfg[i2].Name][j2].pushState
                     /\ lexerRules[cfg[i1].Name][j1].pushState \in DOMAIN lexerRules
            /\ Cardinality((DOMAIN lexerRules) \ StateNames(cfg))
                  <= Cardinality(CombinedListsOf(cfg)))
    /\ [][pc = "combine" =>
            /\ \A n \in DOMAIN lexerRules :
                  n \in DOMAIN lexerRules' /\ lexerRules'[n] = lexerRules[n]
            /\ (\E k \in 1..(ci - 1) :
                   /\ ~IsNil(AllRules(cfg, 1)[k].Combined)
                   /\ AllRules(cfg, 1)[k].Combined = AllRules(cfg, 1)[ci].Combined)
               => lexerRules' = lexerRules]_vars

\* C9 witness: build() is over a config whose root and c both declare
\* Combined(a, b), and the table holds the one state synthesized for it.
C9_Witness ==
    /\ pc = "resolve"
    /\ \E i1 \in 1..Len(cfg), i2 \in 1..Len(cfg) :
          /\ i1 # i2
          /\ \E r1 \in Elements(cfg[i1].Rules), r2 \in Elements(cfg[i2].Rules) :
                r1.Combined = Combined(<<sA, sB>>) /\ r2.Combined = r1.Combined
    /\ (DOMAIN lexerRules) \ StateNames(cfg) = {combinedPrefix \o sAB}

----------------------------------------------------------------------------
(* The session: Lexer.Tokenise(text) over the table Build returned *)

MaxTextLen == 3     \* the longest text tokenised
MaxStack == 4       \* the deepest state stack a step may leave
MaxTimeouts == 1    \* the pattern matches that may run out of time

CR == "CR"
LF == "LF"
Chars == {"a", "b", CR, LF}

Min(a, b) == IF a < b THEN a ELSE b

\* ensureLF(text): every CR LF pair and every other CR becomes one LF; a
\* breakpoint [norm, delta] is recorded where the distance between an offset
\* of the stripped text and the offset of the same place in the text grows.
RECURSIVE ensureLFFrom(_, _, _, _)
ensureLFFrom(t, i, strippedSoFar, mapSoFar) ==
    IF i > Len(t) THEN [stripped |-> strippedSoFar, offsetMap |-> mapSoFar]
    ELSE IF t[i] = CR /\ i < Len(t) /\ t[i + 1] = LF
    THEN LET delta == IF mapSoFar = <<>> THEN 0 ELSE mapSoFar[Len(mapSoFar)].delta
         IN  ensureLFFrom(t, i + 2, Append(strippedSoFar, LF),
                          Append(mapSoFar, [norm |-> Len(strippedSoFar) + 1,
                                            delta |-> delta + 1]))
    ELSE ensureLFFrom(t, i + 1,
                      Append(strippedSoFar, IF t[i] = CR THEN LF ELSE t[i]),
                      mapSoFar)

ensureLF(t) == ensureLFFrom(t, 1, <<>>, <<>>)

\* toOriginal that looks for the last breakpoint before n only.
toOriginal_Before(m, n) ==
    LET before == {i \in 1..Len(m) : m[i].norm < n}
    IN  IF before = {} THEN n
        ELSE n + m[CHOOSE i \in before : \A j \in before : j <= i].delta

\* offsetMap.toOriginal(n): n plus the delta of the last breakpoint at or
\* before n.
toOriginal(m, n) ==
    LET before == {i \in 1..Len(m) : m[i].norm <= n}
    IN  IF before = {} THEN n
        ELSE n + m[CHOOSE i \in before : \A j \in before : j <= i].delta

\* A Token: its type and the offsets of its first character and of the
\* character after its last; Token.Length() is their distance.
Tok(typ, start, end) == [typ |-> typ, start |-> start, end |-> end]
Length(tok) == tok.end - tok.start

\* adjustForLF: a token of the stripped text, in the offsets of the text.
adjustForLF(m, tok) ==
    Tok(tok.typ, toOriginal(m, tok.start), toOriginal(m, tok.end))

\* coalesce, for one token of the inner iterator: the token extends the one
\* held back when it has its type and starts where it ends; otherwise the one
\* held back is yielded and the token is held back in its place.
coalesce(held, tok) ==
    IF held = <<>> THEN [accum |-> <<tok>>, yield |-> <<>>]
    ELSE IF held[1].typ = tok.typ /\ tok.start = held[1].end
    THEN [accum |-> <<[held[1] EXCEPT !.end = tok.end]>>, yield |-> <<>>]
    ELSE [accum |-> <<tok>>, yield |-> held]

RECURSIVE coalesceAll(_, _, _)
coalesceAll(held, yielded, toks) ==
    IF toks = <<>> THEN [accum |-> held, out |-> yielded]
    ELSE LET c == coalesce(held, Head(toks))
         IN  coalesceAll(c.accum, yielded \o c.yield, Tail(toks))

\* The stack of stack_test.go: Pop(n) takes off up to n entries, and none
\* from an empty stack; Top of an empty stack is the zero state.
newStack == <<>>
stackLen(st) == Len(st)
stackPush(st, name) == Append(st, name)
\* Pop that takes off n entries when the stack has that many, and none
\* otherwise.
stackPop_AllOrNone(st, n) == IF n > Len(st) THEN st ELSE SubSeq(st, 1, Len(st) - n)
stackPop(st, n) == SubSeq(st, 1, Len(st) - Min(n, Len(st)))
stackTop(st) == IF st = <<>> THEN <<>> ELSE st[Len(st)]

\* rules.Get(name).rules: the rule list of a state, none for no state.
Get(T, name) == IF name \in DOMAIN T THEN T[name] ELSE <<>>

\* Whether alternative alt matches s[from+1 .. to] at offset k of s.
MatchesAt(alt, s, k, to) ==
    /\ k + Len(alt.atoms) <= to
    /\ \A i \in 1..Len(alt.atoms) : s[k + i] \in alt.atoms[i]

\* re.FindRunesMatch(s[from:to]): the leftmost match, and there the first
\* alternative that matches; an anchored alternative matches at from only.
FindRunesMatch(re, s, from, to) ==
    LET Hits(k) == {i \in 1..Len(re.alts) :
                       (re.anchored[i] => k = from) /\ MatchesAt(re.alts[i], s, k, to)}
        starts == {k \in from..to : Hits(k) # {}}
    IN  IF starts = {} THEN [found |-> FALSE, index |-> 0, length |-> 0, alt |-> 0]
        ELSE LET k == CHOOSE x \in starts : \A y \in starts : x <= y
                 i == CHOOSE x \in Hits(k) : \A y \in Hits(k) : x <= y
             IN  [found |-> TRUE, index |-> k - from,
                  length |-> Len(re.alts[i].atoms), alt |-> i]

\* The rules of a list whose pattern matches at the scan position.
Matching(rs, s, from, to) ==
    {i \in 1..Len(rs) :
        LET m == FindRunesMatch(rs[i].pattern, s, from, to)
        IN  m.found /\ m.index = 0}

\* A nested or outer session: the span from..to of the stripped text still
\* to tokenise, its state stack, and the groups of a ByGroups match still to
\* hand out.
Frame(from, to, st) == [pos |-> from, end |-> to, stack |-> st, pending |-> <<>>]

\* newIterator(stripped, rules)
newIterator(s) == <<Frame(0, Len(s), stackPush(newStack, root))>>

\* What a matched rule does to the stack: Pop takes off depth entries but
\* never the floor, Push puts the target on, #push the current state again.
ApplyPop_Unguarded(st, depth) == stackPop(st, depth)
ApplyPop(st, depth) == stackPop(st, Min(depth, stackLen(st) - 1))
ApplyPush(st, target) ==
    stackPush(st, IF target = hashPush THEN stackTop(st) ELSE target)
ApplyRule(st, r) ==
    LET popped == IF r.popDepth > 0 THEN ApplyPop(st, r.popDepth) ELSE st
    IN  IF r.pushState # <<>> THEN ApplyPush(popped, r.pushState) ELSE popped

TokItem(typ, from, to) == [sub |-> FALSE, typ |-> typ, state |-> <<>>, from |-> from, to |-> to]
SubItem(state, from, to) == [sub |-> TRUE, typ |-> zeroTokenType, state |-> state, from |-> from, to |-> to]

\* ByGroups: one item per capture group, left to right: a token of the
\* group's type, or the group's span for a sub-session in its state.
GroupItems(r, alt, p) ==
    [k \in 1..Min(Len(alt.groups), Len(r.byGroups)) |->
        IF r.byGroups[k].useSelfState # <<>>
        THEN SubItem(r.byGroups[k].useSelfState,
                     p + alt.groups[k][1] - 1, p + alt.groups[k][2])
        ELSE TokItem(r.byGroups[k].tok,
                     p + alt.groups[k][1] - 1, p + alt.groups[k][2])]

\* One step of the tokenizer on a frame, the rules in timedOut having run out
\* of time: the frame after it and what it hands out.
StepFrame(T, s, f, timedOut) ==
    LET p == f.pos
        rs == Get(T, stackTop(f.stack))
        hits == Matching(rs, s, p, f.end) \ timedOut
        error == TokItem("Error", p, p + 1)
    IN  IF hits = {}
        THEN [f EXCEPT !.pos = p + 1, !.pending = <<error>>]
        ELSE LET i == CHOOSE x \in hits : \A y \in hits : x <= y
                 r == rs[i]
                 m == FindRunesMatch(r.pattern, s, p, f.end)
                 items == IF r.byGroups # <<>>
                          THEN GroupItems(r, r.pattern.alts[m.alt], p)
                          ELSE IF r.useSelfState # <<>>
                          THEN <<SubItem(r.useSelfState, p, p + m.length)>>
                          ELSE <<TokItem(r.tok, p, p + m.length)>>
                 st == IF r.byGroups # <<>> \/ r.useSelfState # <<>> THEN f.stack
                       ELSE ApplyRule(f.stack, r)
             IN  IF m.length = 0 /\ st = f.stack
                 THEN [f EXCEPT !.pos = p + 1, !.pending = items \o <<error>>]
                 ELSE [f EXCEPT !.pos = p + m.length, !.stack = st, !.pending = items]

\* Hand out what the top frame has pending, in order: a token is yielded, a
\* sub-session is started on top; a sub-session that has reached the end of
\* its span is dropped.
RECURSIVE Settle(_, _)
Settle(fs, toks) ==
    LET f == fs[Len(fs)]
        below == SubSeq(fs, 1, Len(fs) - 1)
    IN  IF f.pending # <<>>
        THEN LET item == Head(f.pending)
                 g == [f EXCEPT !.pending = Tail(@)]
             IN  IF item.sub
                 THEN Settle(below \o <<g, Frame(item.from, item.to,
                                                 stackPush(newStack, item.state))>>, toks)
                 ELSE Settle(Append(below, g),
                             Append(toks, Tok(item.typ, item.from, item.to)))
        ELSE IF f.pos >= f.end /\ Len(fs) > 1
        THEN Settle(below, toks)
        ELSE [frames |-> fs, toks |-> toks]

\* Lexer.Tokenise(t): tokeniseAt(t, nil)
Tokenise(t) ==
    /\ pc = "built"
    /\ text' = t
    /\ stripped' = ensureLF(t).stripped
    /\ offsetMap' = ensureLF(t).offsetMap
    /\ frames' = newIterator(ensureLF(t).stripped)
    /\ accum' = <<>>
    /\ out' = <<>>
    /\ timeouts' = 0
    /\ pc' = "lexing"
    /\ UNCHANGED <<cfg, si, ci, lexerRules, newRules, validateErr, err>>
    /\ UNCHANGED <<saves, otherVars>>

\* The innermost session has text left: one step of the tokenizer, whose
\* tokens go through adjustForLF into the coalescer.
IteratorNext ==
    /\ pc = "lexing"
    /\ LET f == frames[Len(frames)]
           rs == Get(lexerRules, stackTop(f.stack))
       IN  /\ f.pos < f.end
           /\ \E timedOut \in SUBSET Matching(rs, stripped, f.pos, f.end) :
                 /\ timeouts + Cardinality(timedOut) <= MaxTimeouts
                 /\ timeouts' = timeouts + Cardinality(timedOut)
                 /\ LET g == StepFrame(lexerRules, stripped, f, timedOut)
                        settled == Settle(Append(SubSeq(frames, 1, Len(frames) - 1), g), <<>>)
                        adjusted == [k \in 1..Len(settled.toks) |->
                                        adjustForLF(offsetMap, settled.toks[k])]
                        fed == coalesceAll(accum, out, adjusted)
                    IN  /\ stackLen(g.stack) <= MaxStack
                        /\ frames' = settled.frames
                        /\ accum' = fed.accum
                        /\ out' = fed.out
    /\ UNCHANGED <<cfg, pc, si, ci, lexerRules, newRules, validateErr, err>>
    /\ UNCHANGED <<text, stripped, offsetMap, saves, otherVars>>

\* The session has no text left: the coalescer yields what it holds back, and
\* the iteration ends.
EndOfInput ==
    /\ pc = "lexing"
    /\ Len(frames) = 1
    /\ frames[1].pos >= frames[1].end
    /\ out' = out \o accum
    /\ accum' = <<>>
    /\ pc' = "done"
    /\ UNCHANGED <<cfg, si, ci, lexerRules, newRules, validateErr, err>>
    /\ UNCHANGED <<text, stripped, offsetMap, frames, timeouts, saves, otherVars>>

RECURSIVE Texts(_)
Texts(n) ==
    IF n = 0 THEN {<<>>}
    ELSE Texts(n - 1) \cup {Append(t, c) : t \in Texts(n - 1), c \in Chars}

NextSession ==
    \/ \E t \in Texts(MaxTextLen) : Tokenise(t)
    \/ IteratorNext
    \/ EndOfInput

----------------------------------------------------------------------------
(* The grammars sessions are run over *)

sS == <<"s">>
sT == <<"t">>
ClassLF == {LF}
PatLF == Pat(<<Alt(<<ClassLF>>)>>)
PatAB == Pat(<<Alt(<<ClassA, ClassB>>)>>)
PatAorB == Pat(<<Alt(<<ClassA>>), Alt(<<ClassB>>)>>)
\* (a)b and (a)(b)
PatGroupAThenB == Pat(<<AltG(<<ClassA, ClassB>>, << <<1, 1>> >>)>>)
PatGroupAGroupB == Pat(<<AltG(<<ClassA, ClassB>>, << <<1, 1>>, <<2, 2>> >>)>>)

PushRule(pattern, type, name) == [TokenRule(pattern, type) EXCEPT !.Push = State(name)]
PopRule(pattern, type, n) == [TokenRule(pattern, type) EXCEPT !.Pop = Depth(n)]
ByGroupsRule(pattern, es) == [CfgRule(pattern) EXCEPT !.ByGroups = ByGroups(es)]
UsingSelfRule(pattern, name) == [CfgRule(pattern) EXCEPT !.UsingSelf = State(name)]

\* letters and digits, nothing for a line end
PlainGrammar ==
    <<CfgState(root, <<TokenRule(PatA, "Text"), TokenRule(PatB, "Number")>>)>>
\* line ends and letters of one type, so that tokens coalesce across them
LineGrammar ==
    <<CfgState(root, <<TokenRule(PatLF, "Text"), TokenRule(PatAorB, "Text")>>)>>
\* a opens a string and closes it, b is text outside and string inside
StringGrammar ==
    <<CfgState(root, <<PushRule(PatA, "Punct", sS), TokenRule(PatB, "Text")>>),
      CfgState(sS, <<PopRule(PatA, "Punct", 1), TokenRule(PatB, "String")>>)>>
\* a pushes the current state again, b pops two
DepthGrammar ==
    <<CfgState(root, <<PushRule(PatA, "Text", hashPush), PopRule(PatB, "Number", 2)>>)>>
\* s is entered on a and left at once, without consuming anything
DefaultPopGrammar ==
    <<CfgState(root, <<PushRule(PatA, "Punct", sS), TokenRule(PatB, "Text")>>),
      CfgState(sS, <<PopRule(EmptyPattern, "String", 1)>>)>>
\* root enters s and s leaves it, neither consuming anything
EmptyLoopGrammar ==
    <<CfgState(root, <<PushRule(EmptyPattern, "Text", sS)>>),
      CfgState(sS, <<PopRule(EmptyPattern, "Text", 1)>>)>>
\* root pushes itself again without consuming anything
SelfPushGrammar ==
    <<CfgState(root, <<PushRule(EmptyPattern, "Text", hashPush)>>)>>
\* (a)b with a type for the group only
GroupGrammar ==
    <<CfgState(root, <<ByGroupsRule(PatGroupAThenB, <<GroupToken("Text")>>),
                       TokenRule(PatA, "Text"), TokenRule(PatB, "Number")>>)>>
\* (a)(b): a is punctuation, b is tokenised by s
GroupUsingGrammar ==
    <<CfgState(root, <<ByGroupsRule(PatGroupAGroupB,
                                    <<GroupToken("Punct"), GroupUsingSelf(sS)>>),
                       TokenRule(PatAorB, "Text")>>),
      CfgState(sS, <<TokenRule(PatB, "String")>>)>>
\* ab is tokenised by s, which knows a only
UsingGrammar ==
    <<CfgState(root, <<UsingSelfRule(PatAB, sS), TokenRule(PatAorB, "Text")>>),
      CfgState(sS, <<PushRule(PatA, "Number", sT)>>),
      CfgState(sT, <<PopRule(PatA, "Number", 3)>>)>>
\* a pushes the state combined from s and t
CombinedGrammar ==
    <<CfgState(root, <<CombinedRule(<<sS, sT>>), TokenRule(PatB, "Text")>>),
      CfgState(sS, <<TokenRule(PatB, "String")>>),
      CfgState(sT, <<IncludeRule(sS), PopRule(PatA, "Punct", 1)>>)>>
\* no root, and a push to a state that is not defined: Build returns both
NoRootGrammar ==
    <<CfgState(sS, <<TokenRule(PatA, "Text")>>)>>
GhostGrammar ==
    <<CfgState(root, <<PushRule(PatA, "Text", ghost), TokenRule(PatB, "Number")>>)>>

TokConfigs ==
    {PlainGrammar, LineGrammar, StringGrammar, DepthGrammar, DefaultPopGrammar,
     EmptyLoopGrammar, SelfPushGrammar, GroupGrammar, GroupUsingGrammar, UsingGrammar,
     CombinedGrammar, NoRootGrammar, GhostGrammar}

InitTok == \E c \in TokConfigs : InitBuilder(c)

NextTok == NextBuild \/ NextSession

SpecTok == InitTok /\ [][NextTok]_vars

----------------------------------------------------------------------------
(* Properties of the session *)

InSession == pc \in {"lexing", "done"}

\* Each token starts where the one before it ends, the first at 0, and none
\* is empty.
Contiguous(toks) ==
    \A i \in 1..Len(toks) :
        /\ toks[i].start < toks[i].end
        /\ toks[i].start = (IF i = 1 THEN 0 ELSE toks[i - 1].end)

\* C1: the tokens Tokenise yields tile the text: the first starts at 0, each
\* next one starts where the one before ends, none is empty, and when the
\* iteration has ended the last one ends at len(text).
C1_TokensTile ==
    InSession =>
        /\ Contiguous(out)
        /\ pc = "done" =>
              (IF out = <<>> THEN text = <<>> ELSE out[Len(out)].end = Len(text))

\* C2: every step of the tokenizer advances the scan position of the session
\* it acts on (the innermost one), so that the iteration reaches its end.
C2_EveryStepAdvances ==
    [][(pc = "lexing" /\ pc' = "lexing" /\ frames' # frames) =>
          LET k == Len(frames)
          IN  Len(frames') >= k => frames'[k].pos > frames[k].pos]_vars

C10_NoEqualNeighbours ==
    /\ \A i \in 1..(Len(out) - 1) : out[i].typ # out[i + 1].typ
    /\ Len(accum) <= 1

----------------------------------------------------------------------------
(* The values the variables of a part of the program have while another    *)
(* part is looked at on its own                                            *)

BuilderIdle ==
    /\ cfg = <<>> /\ si = 1 /\ ci = 1
    /\ lexerRules = EmptyMap /\ newRules = EmptyMap
    /\ validateErr = NoError /\ err = NoError
SessionIdle ==
    /\ frames = <<>> /\ accum = <<>> /\ out = <<>> /\ timeouts = 0 /\ saves = 0
StackIdle == stk = <<>> /\ called = <<>>
RegistryIdle ==
    /\ registry = [Lexers |-> <<>>, byName |-> <<>>, byAlias |-> <<>>]
    /\ found = <<>>

----------------------------------------------------------------------------
(* ensureLF and the offset map on their own *)

MaxNormLen == 4     \* the longest text normalized

\* tokeniseAt: stripped, offsetMap := ensureLF(text)
EnsureLF ==
    /\ pc = "text"
    /\ stripped' = ensureLF(text).stripped
    /\ offsetMap' = ensureLF(text).offsetMap
    /\ pc' = "stripped"
    /\ UNCHANGED <<cfg, si, ci, lexerRules, newRules, validateErr, err>>
    /\ UNCHANGED <<text, frames, accum, out, timeouts, saves, otherVars>>

InitNorm ==
    /\ pc = "text"
    /\ text \in Texts(MaxNormLen)
    /\ stripped = <<>>
    /\ offsetMap = <<>>
    /\ BuilderIdle /\ SessionIdle /\ StackIdle /\ RegistryIdle

NextNorm == EnsureLF

SpecNorm == InitNorm /\ [][NextNorm]_vars

\* The offsets in t of the characters that stay when every CR LF pair becomes
\* one character (the pair's offset is that of its CR), then the length of t:
\* entry n + 1 is the offset in t of offset n of the stripped text.
RECURSIVE OriginsFrom(_, _)
OriginsFrom(t, i) ==
    IF i > Len(t) THEN <<Len(t)>>
    ELSE <<i - 1>> \o OriginsFrom(t, IF t[i] = CR /\ i < Len(t) /\ t[i + 1] = LF
                                     THEN i + 2 ELSE i + 1)
Origins(t) == OriginsFrom(t, 1)

\* C11: for every text and every offset n of its stripped text, the end
\* included, toOriginal(n) over the offset map ensureLF made is the offset in
\* the text of the character at n.
C11_OffsetRoundTrip ==
    pc = "stripped" =>
        /\ Len(Origins(text)) = Len(stripped) + 1
        /\ \A n \in 0..Len(stripped) : toOriginal(offsetMap, n) = Origins(text)[n + 1]

\* C11 witness: "a\r\nb" is stripped to "a\nb", and the b at offset 2 of the
\* stripped text is reported at offset 3.
C11_Witness ==
    /\ pc = "stripped"
    /\ text = <<"a", CR, LF, "b">>
    /\ stripped = <<"a", LF, "b">>
    /\ toOriginal(offsetMap, 2) = 3

----------------------------------------------------------------------------
(* The compiled patterns *)

\* C12: no compiled pattern of the table reports a match that starts after
\* the position matching was attempted at: whatever the session's position,
\* a rule of the current state either finds no match or finds one at index 0.
C12_MatchesAtPositionOnly ==
    (pc = "lexing" /\ frames # <<>>) =>
        LET f == frames[Len(frames)]
            rs == Get(lexerRules, stackTop(f.stack))
        IN  \A i \in 1..Len(rs) :
               LET m == FindRunesMatch(rs[i].pattern, stripped, f.pos, f.end)
               IN  m.found => m.index = 0

----------------------------------------------------------------------------
(* More properties of Build *)

\* The action categories a config rule populates: Token (with its Push or
\* Pop), Include, Combined, and ByGroups or UsingSelf.
Categories(r) ==
    (IF ~IsNil(r.Token) \/ ~IsNil(r.Push) \/ ~IsNil(r.Pop) THEN {"Token"} ELSE {})
    \cup (IF ~IsNil(r.Include) THEN {"Include"} ELSE {})
    \cup (IF ~IsNil(r.Combined) THEN {"Combined"} ELSE {})
    \cup (IF ~IsNil(r.ByGroups) \/ ~IsNil(r.UsingSelf) THEN {"Groups"} ELSE {})

\* C13: when Build returns, every rule of the Config populates exactly one
\* action category, and no rule of the table carries a token type together
\* with a ByGroups list or a UsingSelf state, or nothing to do at all.
C13_OneCategory ==
    pc = "built" =>
        /\ \A r \in RuleSet(cfg) : Cardinality(Categories(r)) = 1
        /\ \A n \in DOMAIN lexerRules : \A rl \in Elements(lexerRules[n]) :
              /\ ~(rl.tok # zeroTokenType
                   /\ (rl.byGroups # <<>> \/ rl.useSelfState # <<>>))
              /\ \/ rl.tok # zeroTokenType \/ rl.pushState # <<>> \/ rl.popDepth > 0
                 \/ rl.byGroups # <<>> \/ rl.useSelfState # <<>>

----------------------------------------------------------------------------
(* Resuming a session: tokeniseAt(text, state) with a saved state *)

MaxSaves == 1       \* the times a session is saved and resumed

\* tokeniseAt(text, state) over the same text, state being the state the
\* session was saved with between two tokens: when the coalescer held a
\* token back, that token is dropped and the index goes back by its length;
\* SetState then puts the saved stack and index in the new iterator.  The
\* tokens yielded before the save stay with the consumer.  Saving inside a
\* nested session, and an index that would leave the text, are left out.
Resume ==
    /\ pc = "lexing"
    /\ saves < MaxSaves
    /\ Len(frames) = 1
    /\ LET f == frames[1]
           back == IF accum # <<>> THEN Length(accum[1]) ELSE 0
       IN  /\ f.pos - back >= 0
           /\ frames' = <<[f EXCEPT !.pos = f.pos - back]>>
    /\ accum' = <<>>
    /\ saves' = saves + 1
    /\ UNCHANGED <<cfg, pc, si, ci, lexerRules, newRules, validateErr, err>>
    /\ UNCHANGED <<text, stripped, offsetMap, out, timeouts, otherVars>>

NextResume == NextTok \/ Resume

SpecResume == InitTok /\ [][NextResume]_vars

\* The tokens a session over table T yields when it is run to the end with
\* no save and no timeout, from the frames fs with held held back and toks
\* yielded; done is FALSE when it has not ended after fuel steps.
RECURSIVE RunFrom(_, _, _, _, _, _, _)
RunFrom(T, st, m, fs, held, toks, fuel) ==
    LET f == fs[Len(fs)]
    IN  IF Len(fs) = 1 /\ f.pos >= f.end
        THEN [done |-> TRUE, out |-> toks \o held]
        ELSE IF fuel = 0 \/ stackLen(f.stack) > MaxStack
        THEN [done |-> FALSE, out |-> toks]
        ELSE LET g == StepFrame(T, st, f, {})
                 settled == Settle(Append(SubSeq(fs, 1, Len(fs) - 1), g), <<>>)
                 adjusted == [k \in 1..Len(settled.toks) |->
                                 adjustForLF(m, settled.toks[k])]
                 fed == coalesceAll(held, toks, adjusted)
             IN  RunFrom(T, st, m, settled.frames, fed.accum, fed.out, fuel - 1)

\* More steps than a session that ends takes over a text of MaxTextLen
\* characters: a step advances or changes the stack.
RunFuel == 2 * (MaxTextLen + MaxStack)

Uninterrupted(T, t) ==
    RunFrom(T, ensureLF(t).stripped, ensureLF(t).offsetMap,
            newIterator(ensureLF(t).stripped), <<>>, <<>>, RunFuel)

\* C14: a session that was saved and resumed, and in which no match timed
\* out, has yielded at its end exactly the tokens the uninterrupted session
\* over the same table and text yields.
C14_ResumeIsSeamless ==
    (pc = "done" /\ saves > 0 /\ timeouts = 0) =>
        LET u == Uninterrupted(lexerRules, text)
        IN  u.done => out = u.out

----------------------------------------------------------------------------
(* The stack on its own, as stack_test.go uses it *)

MaxDepth == 5       \* the deepest stack pushed
MaxPop == 3         \* the most entries one Pop asks for

zeroState == <<>>

PushCall(x) == <<[op |-> "Push", state |-> x, n |-> 0]>>
PopCall(n) == <<[op |-> "Pop", state |-> zeroState, n |-> n]>>

\* s.Push(x)
StackPush(x) ==
    /\ pc = "stack"
    /\ stackLen(stk) < MaxDepth
    /\ stk' = stackPush(stk, x)
    /\ called' = PushCall(x)
    /\ UNCHANGED <<cfg, pc, si, ci, lexerRules, newRules, validateErr, err>>
    /\ UNCHANGED <<sessionVars, registry, found>>

\* s.Pop(n)
StackPop(n) ==
    /\ pc = "stack"
    /\ stk' = stackPop(stk, n)
    /\ called' = PopCall(n)
    /\ UNCHANGED <<cfg, pc, si, ci, lexerRules, newRules, validateErr, err>>
    /\ UNCHANGED <<sessionVars, registry, found>>

InitStack ==
    /\ pc = "stack"
    /\ stk = newStack
    /\ called = <<>>
    /\ text = <<>> /\ stripped = <<>> /\ offsetMap = <<>>
    /\ BuilderIdle /\ SessionIdle /\ RegistryIdle

NextStack ==
    \/ \E x \in {sS, sT} : StackPush(x)
    \/ \E n \in 0..MaxPop : StackPop(n)

SpecStack == InitStack /\ [][NextStack]_vars

Max(a, b) == IF a > b THEN a ELSE b

----------------------------------------------------------------------------
(* The LexerRegistry (registry.go).  A lexer stands for its config.Config:  *)
(* Name, Aliases, Filenames (globs) and Priority.  A file name and a glob   *)
(* are sequences of characters; "*" in a glob stands for any run of         *)
(* characters other than "/", and a glob with a "[" that is never closed is *)
(* malformed.                                                               *)

MaxLexers == 3      \* the lexers registered

\* strings.ToLower
LowerChar(c) ==
    CASE c = "G" -> "g" [] c = "C" -> "c" [] c = "B" -> "b" [] OTHER -> c
ToLower(name) == [i \in DOMAIN name |-> LowerChar(name[i])]

\* filepath.Base(path): the last element of path, trailing slashes removed;
\* "." for an empty path, "/" for a path of slashes only.
RECURSIVE TrimSlashes(_)
TrimSlashes(path) ==
    IF path # <<>> /\ path[Len(path)] = "/"
    THEN TrimSlashes(SubSeq(path, 1, Len(path) - 1)) ELSE path
Base(path) ==
    IF path = <<>> THEN <<".">>
    ELSE LET trimmed == TrimSlashes(path)
             slashes == {i \in 1..Len(trimmed) : trimmed[i] = "/"}
         IN  IF trimmed = <<>> THEN <<"/">>
             ELSE IF slashes = {} THEN trimmed
             ELSE SubSeq(trimmed,
                         (CHOOSE i \in slashes : \A j \in slashes : j <= i) + 1,
                         Len(trimmed))

\* filepath.Match(glob, name): [matched, err]
BadGlob(glob) == \E i \in 1..Len(glob) : glob[i] = "["
RECURSIVE GlobMatches(_, _)
GlobMatches(glob, name) ==
    IF glob = <<>> THEN name = <<>>
    ELSE IF Head(glob) = "*"
    THEN \E k \in 0..Len(name) :
            /\ \A i \in 1..k : name[i] # "/"
            /\ GlobMatches(Tail(glob), SubSeq(name, k + 1, Len(name)))
    ELSE name # <<>> /\ Head(name) = Head(glob) /\ GlobMatches(Tail(glob), Tail(name))
FilepathMatch(glob, name) ==
    IF BadGlob(glob) THEN [matched |-> FALSE, err |-> Error("ErrBadPattern")]
    ELSE [matched |-> GlobMatches(glob, name), err |-> NoError]

\* prioritisedLexers.Less(i, j), on the two lexers
Less(li, lj) ==
    LET ip == IF li.Priority = 0 THEN 1 ELSE li.Priority
        jp == IF lj.Priority = 0 THEN 1 ELSE lj.Priority
    IN  ip > jp

\* LexerRegistry.Register(lexer)
RECURSIVE RegisterAliases(_, _, _)
RegisterAliases(byAlias, aliases, lexer) ==
    IF aliases = <<>> THEN byAlias
    ELSE RegisterAliases(MapSet(MapSet(byAlias, Head(aliases), lexer),
                                ToLower(Head(aliases)), lexer),
                         Tail(aliases), lexer)
Register(lexer) ==
    /\ pc = "registry"
    /\ Len(registry.Lexers) < MaxLexers
    /\ registry' =
          [Lexers |-> Append(registry.Lexers, lexer),
           byName |-> MapSet(MapSet(registry.byName, lexer.Name, lexer),
                             ToLower(lexer.Name), lexer),
           byAlias |-> RegisterAliases(registry.byAlias, lexer.Aliases, lexer)]
    /\ UNCHANGED <<cfg, pc, si, ci, lexerRules, newRules, validateErr, err>>
    /\ UNCHANGED <<sessionVars, stk, called, found>>

\* The globs of the registered lexers in the order Match visits them.
RECURSIVE AllGlobs(_)
AllGlobs(lexers) ==
    IF lexers = <<>> THEN <<>> ELSE Head(lexers).Filenames \o AllGlobs(Tail(lexers))

\* LexerRegistry.Match(filename): every glob of every lexer is handed to
\* filepath.Match, whose result only mylog.Check2 looks at; nothing is ever
\* appended to matched, of which the first after sorting would be returned.
Match(filename) ==
    /\ pc = "registry"
    /\ LET base == Base(filename)
           globs == AllGlobs(registry.Lexers)
           matched == <<>>
       IN  IF \E i \in 1..Len(globs) : FilepathMatch(globs[i], base).err # NoError
           THEN /\ pc' = "panicked"
                /\ err' = Error("ErrBadPattern")
                /\ UNCHANGED found
           ELSE /\ \E lexer \in IF Len(matched) > 0
                                THEN {Set(matched[i]) : i \in
                                        {k \in 1..Len(matched) :
                                            \A j \in 1..Len(matched) :
                                                ~Less(matched[j], matched[k])}}
                                ELSE {Nil} :
                      found' = <<[filename |-> filename, lexer |-> lexer]>>
                /\ UNCHANGED <<pc, err>>
    /\ UNCHANGED <<cfg, si, ci, lexerRules, newRules, validateErr>>
    /\ UNCHANGED <<sessionVars, stk, called, registry>>

Lexer(name, aliases, filenames, priority) ==
    [Name |-> name, Aliases |-> aliases, Filenames |-> filenames,
     Priority |-> priority]

\* *a at the default priority; a and b at priority 2; b at priority 1; a
\* malformed glob; no glob at all
RegLexers ==
    {Lexer(<<"G", "o">>, <<<<"G", "o", "l">>>>, <<<<"*", "a">>>>, 0),
     Lexer(<<"C">>, <<>>, <<<<"a">>, <<"b">>>>, 2),
     Lexer(<<"B">>, <<<<"b">>>>, <<<<"b">>>>, 1),
     Lexer(<<"x">>, <<>>, <<<<"[">>>>, 0),
     Lexer(<<"n">>, <<>>, <<>>, 0)}

FileNames ==
    {<<>>, <<"a">>, <<"b">>, <<"b", "a">>, <<"b", "/", "a">>, <<"a", "/">>, <<"/">>}

InitRegistry ==
    /\ pc = "registry"
    /\ RegistryIdle
    /\ text = <<>> /\ stripped = <<>> /\ offsetMap = <<>>
    /\ BuilderIdle /\ SessionIdle /\ StackIdle

NextRegistry ==
    \/ \E lexer \in RegLexers : Register(lexer)
    \/ \E filename \in FileNames : Match(filename)

SpecRegistry == InitRegistry /\ [][NextRegistry]_vars

\* The registered lexers one of whose globs matches the base name of f.
Matchers(reg, f) ==
    {i \in 1..Len(reg.Lexers) :
        \E k \in 1..Len(reg.Lexers[i].Filenames) :
            FilepathMatch(reg.Lexers[i].Filenames[k], Base(f)).matched}

EffectivePriority(lexer) == IF lexer.Priority = 0 THEN 1 ELSE lexer.Priority

\* C16: a Match(filename) that returns returns a registered lexer with a
\* glob that matches the base name of filename, of the highest effective
\* priority among those, whenever there is one, and nil only when there is
\* none.
C16_MatchFindsLexer ==
    [][(pc = "registry" /\ pc' = "registry" /\ registry' = registry /\ found' # <<>>) =>
         LET ms == Matchers(registry, found'[1].filename)
             lexer == found'[1].lexer
         IN  IF ms = {} THEN IsNil(lexer)
             ELSE /\ ~IsNil(lexer)
                  /\ \E i \in ms :
                        /\ lexer[1] = registry.Lexers[i]
                        /\ \A j \in ms : EffectivePriority(registry.Lexers[i])
                                            >= EffectivePriority(registry.Lexers[j])]_vars

----------------------------------------------------------------------------
(* Combined states and the order of resolution *)

\* The rule lists of the states names, one after the other.
RECURSIVE Concat(_, _)
Concat(T, names) ==
    IF names = <<>> THEN <<>> ELSE T[Head(names)] \o Concat(T, Tail(names))

\* The names a Combined may refer to: the states the Config declares and the
\* states synthesized for its Combined lists.
Defined(c) ==
    StateNames(c) \cup {combinedPrefix \o Join(l, joinSep) : l \in CombinedListsOf(c)}

\* C17: Build fails when a Combined names a state that is not defined; when
\* Build returns, the rule that declares a Combined pushes the state
\* synthesized for its list, and that state holds in the final table the
\* final rule lists of the states of the list, one after the other.
C17_CombinedIsConcatenation ==
    /\ []((\E r \in CombinedRulesOf(cfg) :
              \E n \in Elements(r.Combined[1].States) : n \notin Defined(cfg))
          => ~PastBuild)
    /\ [][pc' = "built" =>
            \A i \in 1..Len(cfg) : \A j \in 1..Len(cfg[i].Rules) :
               ~IsNil(cfg[i].Rules[j].Combined) =>
                  LET l == cfg[i].Rules[j].Combined[1].States
                      name == combinedPrefix \o Join(l, joinSep)
                  IN  /\ lexerRules[cfg[i].Name][j].pushState = name
                      /\ name \in DOMAIN lexerRules'
                      /\ lexerRules'[name] = Concat(lexerRules', l)]_vars

\* C18: once build() has run, two rules that declare Combined with different
\* lists push different states, and no rule that declares a Combined pushes
\* a state the Config declares.
C18_NameIdentifiesList ==
    pc = "resolve" =>
        \A i1 \in 1..Len(cfg), i2 \in 1..Len(cfg) :
        \A j1 \in 1..Len(cfg[i1].Rules), j2 \in 1..Len(cfg[i2].Rules) :
           (~IsNil(cfg[i1].Rules[j1].Combined) /\ ~IsNil(cfg[i2].Rules[j2].Combined))
           => /\ cfg[i1].Rules[j1].Combined # cfg[i2].Rules[j2].Combined
                    => lexerRules[cfg[i1].Name][j1].pushState
                          # lexerRules[cfg[i2].Name][j2].pushState
              /\ lexerRules[cfg[i1].Name][j1].pushState \notin StateNames(cfg)

\* The table build() leaves for a Config it accepts: its states in their
\* order, then the states synthesized for its rules in their order.
RECURSIVE StatesTable(_, _)
StatesTable(c, i) ==
    IF i = 0 THEN EmptyMap
    ELSE AddState(StatesTable(c, i - 1), c[i].Name, ruleSequence(c[i].Rules).rules)
RECURSIVE CombinedTable(_, _)
CombinedTable(T, crs) ==
    IF crs = <<>> THEN T
    ELSE CombinedTable(createCombinedStateInRule(T, Head(crs)).T, Tail(crs))
\* The table Build returns when every state is resolved against that table.
FinalTable(c) ==
    LET T == CombinedTable(StatesTable(c, Len(c)), AllRules(c, 1))
    IN  [n \in DOMAIN T |-> resolveIncludesIn(T, T[n], Cardinality(DOMAIN T)).rules]

\* C19: the table Build returns is the same whatever the order in which
\* resolveIncludes has visited the states: it is the one table the Config
\* determines.
C19_OrderIndependent == pc = "built" => lexerRules = FinalTable(cfg)

\* C19 witness: Build has returned for a Config whose root includes a after
\* its own rule and whose a includes b after its own rule.
C19_Witness ==
    /\ pc = "built"
    /\ cfg = <<CfgState(root, <<OwnRule(root), IncludeRule(sA)>>),
               CfgState(sA, <<OwnRule(sA), IncludeRule(sB)>>),
               CfgState(sB, <<OwnRule(sB)>>)>>
    /\ [i \in 1..Len(lexerRules[root]) |-> lexerRules[root][i].tok]
          = <<"Text", "Number", "String">>
    /\ [i \in 1..Len(lexerRules[sA]) |-> lexerRules[sA][i].tok] = <<"Number", "String">>

\* C20: validate() never names #push among the missing states, and reports
\* no missing state for a Config whose push targets are all states of the
\* Config or #push.
C20_HashPushNotMissing ==
    Validated =>
        /\ hashPush \notin Elements(validateErr.names)
        /\ UndefinedPushTargets(cfg) = {} => validateErr.kind # "MissingStates"

====
